---- MODULE Spec2Model ----
(***************************************************************************)
(* PersonalNoteHub: the in-memory entity store (MemStorage), the token     *)
(* gate and the note/label routes of the Express server.                   *)
(*                                                                         *)
(* JavaScript values are kept with their runtime type, because the code    *)
(* compares identifiers with === / !== and keys its Maps by string:        *)
(*   an identifier is [t |-> "num" | "str" | "nan", n |-> value]           *)
(*   an optional payload field is <<>> (undefined) or <<value>>            *)
(*   a lookup result is <<>> (null) or <<entity>>                          *)
(*   a Map is a sequence of [key, val] entries in insertion order          *)
(***************************************************************************)
EXTENDS Integers, Sequences, FiniteSets, TLC

\* ------------------------------------------------------------------ bounds
MaxUsers  == 3
MaxNotes  == 2
MaxLabels == 2
MaxTime   == 1
MaxOps    == 3
MaxListLen == 3
MaxClock == 8

\* ------------------------------------------------------- program constants
DefaultLabelColor == "#3b82f6"
DefaultBackground == "#ffffff"
DefaultFontSize   == "normal"
DefaultFormatting == "{}"
SummaryFallback   == "Failed to generate summary"
RouteSecretDefault == "notekeeper-secret-key"
PassportSecretDefault == "your-default-secret-key"
\* Lifetimes of a token in days: JWT_EXPIRY = "24h", JWT_EXPIRES_IN = '7d'.
RouteTtl == 1
PassportTtl == 7
TestUserData == [name |-> "Test User", email |-> <<"test@example.com">>, password |-> <<"password123">>]

\* ----------------------------------------------------- JavaScript values
NULL == "<null>"
NullLabels == <<[t |-> "null", n |-> 0]>>

Num(n) == [t |-> "num", n |-> n]
Str(n) == [t |-> "str", n |-> n]
NaN    == [t |-> "nan", n |-> 0]

\* String(x): a number becomes its decimal string, a string stays.
String(x) == IF x.t = "num" THEN Str(x.n) ELSE x

\* parseInt(x, 10): the argument is converted to a string and parsed.
parseInt(x) == IF x.t \in {"num", "str"} THEN Num(x.n) ELSE NaN

\* a === b: same type and same value; NaN equals nothing.
StrictEq(a, b) == a.t # "nan" /\ a = b

\* x || d on an optional string: undefined, null and "" are falsy.
OrStr(opt, d) == IF opt = <<>> \/ opt[1] = NULL \/ opt[1] = "" THEN d ELSE opt[1]

\* x || false on an optional boolean.
OrBool(opt) == IF opt = <<>> THEN FALSE ELSE opt[1]

\* x || [] on an optional array: undefined and null are falsy, [] is not.
OrLabels(opt) == IF opt = <<>> \/ opt[1] = NullLabels THEN <<>> ELSE opt[1]

\* x !== undefined ? x : old
Defined(opt, old) == IF opt # <<>> THEN opt[1] ELSE old

\* array.includes(x)
Includes(arr, x) == \E i \in 1..Len(arr) : arr[i] = x

\* ------------------------------------------------------------- Map<string, V>
MapHas(m, key) == \E i \in 1..Len(m) : m[i].key = key

MapIdx(m, key) == CHOOSE i \in 1..Len(m) : m[i].key = key

\* map.get(key) || null
MapGet(m, key) == IF MapHas(m, key) THEN <<m[MapIdx(m, key)].val>> ELSE <<>>

\* map.set(key, v): an existing key keeps its place, a new key goes last.
MapSet(m, key, v) ==
  IF MapHas(m, key) THEN [m EXCEPT ![MapIdx(m, key)].val = v]
  ELSE Append(m, [key |-> key, val |-> v])

\* map.delete(key)
MapDelete(m, key) == SelectSeq(m, LAMBDA e : e.key # key)

\* Array.from(map.values())
MapValues(m) == [i \in 1..Len(m) |-> m[i].val]

\* process.env.JWT_SECRET: unset, or set to a secret of the deployment.
Envs == {<<>>, <<"env-secret">>}

VARIABLES
  users,      \* MemStorage.users
  notes,      \* MemStorage.notes
  labels,     \* MemStorage.labels
  userId,     \* MemStorage.userId, the next user identifier
  noteId,     \* MemStorage.noteId
  labelId,    \* MemStorage.labelId
  tokens,     \* claims of the tokens issued so far (all within their expiry)
  now,        \* the clock read by new Date()
  apiKey,     \* process.env.OPENAI_API_KEY is set
  pending,    \* requests suspended at an await on bcrypt or on the summarizer
  inflight,   \* how many requests the scenario lets overlap
  jwtEnv,     \* process.env.JWT_SECRET: <<>> when unset, else <<secret>>
  nops,       \* state-changing requests served so far
  out         \* result of the last direct store call (store-level scenarios)

vars == <<users, notes, labels, userId, noteId, labelId, tokens, now, apiKey,
          pending, inflight, jwtEnv, nops, out>>

\* ------------------------------------------------------------------ bcrypt
\* bcrypt.hash(password, saltRounds); the caller checks that a password is there.
bcryptHash(pw) == <<"bcrypt", pw>>

\* bcrypt.compare(password, hash)
bcryptCompare(pw, h) == h = <<"bcrypt", pw>>

\* --------------------------------------------------- MemStorage: users
\* getUser(id): this.users.get(id) || null - the key is used as it is passed.
getUser(us, id) == MapGet(us, id)

\* A lookup that takes the email for a key of the map: it finds nobody.
getUserByEmailAsKey(us, email) == <<>>

\* getUserByEmail(email): the first stored user with that email, or null.
getUserByEmail(us, email) ==
  LET hits == SelectSeq(MapValues(us), LAMBDA u : u.email = email)
  IN  IF hits = <<>> THEN <<>> ELSE <<Head(hits)>>

\* The record createUser builds once the hash is there; id was taken before.
newUser(id, userData, t) ==
  [id |-> Num(id), name |-> userData.name, email |-> userData.email[1],
   password |-> bcryptHash(userData.password[1]), createdAt |-> t]

\* ---------------------------------------------------- MemStorage: notes
\* A comparator that looks at the update time alone.
compareNotesByTime(a, b) == b.updatedAt - a.updatedAt

\* The comparator of getNotesByUserId: negative when a goes before b.
compareNotes(a, b) ==
  IF a.pinned /\ ~b.pinned THEN -1
  ELSE IF ~a.pinned /\ b.pinned THEN 1
  ELSE b.updatedAt - a.updatedAt

\* Array.prototype.sort is stable: x goes before the first element it must precede.
InsertSorted(sorted, x) ==
  LET after == {i \in 1..Len(sorted) : compareNotes(x, sorted[i]) < 0}
      pos   == IF after = {} THEN Len(sorted) + 1
               ELSE CHOOSE i \in after : \A j \in after : i <= j
  IN  SubSeq(sorted, 1, pos - 1) \o <<x>> \o SubSeq(sorted, pos, Len(sorted))

RECURSIVE SortNotes(_)
SortNotes(arr) ==
  IF arr = <<>> THEN <<>>
  ELSE InsertSorted(SortNotes(SubSeq(arr, 1, Len(arr) - 1)), arr[Len(arr)])

\* A listing that sorts every note of the map, whoever owns it.
getNotesOfAll(ns, uid) == SortNotes(MapValues(ns))

\* getNotesByUserId(userId): filter on String(note.userId) === userId, then sort.
getNotesByUserId(ns, uid) ==
  SortNotes(SelectSeq(MapValues(ns), LAMBDA note : StrictEq(String(note.userId), uid)))

\* getNoteById(id)
getNoteById(ns, id) == MapGet(ns, id)

\* A createNote that stores the optional strings as the payload has them.
newNoteAsGiven(id, noteData, uid, t) ==
  [id |-> Num(id),
   userId |-> parseInt(uid),
   title |-> noteData.title[1],
   content |-> noteData.content[1],
   summary |-> NULL,
   pinned |-> OrBool(noteData.pinned),
   labels |-> OrLabels(noteData.labels),
   archived |-> OrBool(noteData.archived),
   backgroundColor |-> IF noteData.backgroundColor = <<>> THEN NULL ELSE noteData.backgroundColor[1],
   fontSize |-> IF noteData.fontSize = <<>> THEN NULL ELSE noteData.fontSize[1],
   textFormatting |-> OrStr(noteData.textFormatting, DefaultFormatting),
   createdAt |-> t,
   updatedAt |-> t]

\* The record createNote builds; noteData carries the caller's userId.
newNote(id, noteData, uid, t) ==
  [id |-> Num(id),
   userId |-> parseInt(uid),
   title |-> noteData.title[1],
   content |-> noteData.content[1],
   summary |-> NULL,
   pinned |-> OrBool(noteData.pinned),
   labels |-> OrLabels(noteData.labels),
   archived |-> OrBool(noteData.archived),
   backgroundColor |-> OrStr(noteData.backgroundColor, DefaultBackground),
   fontSize |-> OrStr(noteData.fontSize, DefaultFontSize),
   textFormatting |-> OrStr(noteData.textFormatting, DefaultFormatting),
   createdAt |-> t,
   updatedAt |-> t]

\* A createNote that takes the first identifier the map has no note under.
createNoteReusing(ns, id, noteData, uid, t) ==
  LET free == CHOOSE k \in 1..(Len(ns) + 1) :
                /\ ~MapHas(ns, Str(k))
                /\ \A m \in 1..(k - 1) : MapHas(ns, Str(m))
  IN  MapSet(ns, Str(free), newNote(free, noteData, uid, t))

\* createNote's write: this.notes.set(String(id), note)
createNote(ns, id, noteData, uid, t) == MapSet(ns, Str(id), newNote(id, noteData, uid, t))

\* A merge that assigns title and content from the payload as they are.
mergedNoteAssign(note, noteData, t) ==
  [note EXCEPT
     !.title = IF noteData.title = <<>> THEN NULL ELSE noteData.title[1],
     !.content = IF noteData.content = <<>> THEN NULL ELSE noteData.content[1],
     !.updatedAt = t]

\* A merge that stamps createdAt as well.
mergedNoteRestamped(note, noteData, t) ==
  [note EXCEPT
     !.title = OrStr(noteData.title, note.title),
     !.content = OrStr(noteData.content, note.content),
     !.pinned = Defined(noteData.pinned, note.pinned),
     !.labels = Defined(noteData.labels, note.labels),
     !.archived = Defined(noteData.archived, note.archived),
     !.backgroundColor = Defined(noteData.backgroundColor, note.backgroundColor),
     !.fontSize = Defined(noteData.fontSize, note.fontSize),
     !.textFormatting = Defined(noteData.textFormatting, note.textFormatting),
     !.createdAt = t,
     !.updatedAt = t]

\* The record updateNote writes over note; noteData.summary is not read.
mergedNote(note, noteData, t) ==
  [note EXCEPT
     !.title = OrStr(noteData.title, note.title),
     !.content = OrStr(noteData.content, note.content),
     !.pinned = Defined(noteData.pinned, note.pinned),
     !.labels = Defined(noteData.labels, note.labels),
     !.archived = Defined(noteData.archived, note.archived),
     !.backgroundColor = Defined(noteData.backgroundColor, note.backgroundColor),
     !.fontSize = Defined(noteData.fontSize, note.fontSize),
     !.textFormatting = Defined(noteData.textFormatting, note.textFormatting),
     !.updatedAt = t]

\* updateNote(id, noteData): [ret |-> null or the written note, notes |-> the map]
updateNote(ns, id, noteData, t) ==
  IF ~MapHas(ns, id) THEN [ret |-> <<>>, notes |-> ns]
  ELSE LET updatedNote == mergedNote(MapGet(ns, id)[1], noteData, t)
       IN  [ret |-> <<updatedNote>>, notes |-> MapSet(ns, id, updatedNote)]

\* deleteNote(id)
deleteNote(ns, id) == [ret |-> MapHas(ns, id), notes |-> MapDelete(ns, id)]

\* --------------------------------------------------- MemStorage: labels
getLabelById(ls, id) == MapGet(ls, id)

\* A createLabel that takes the label's own identifier for the owner's.
newLabelOwnId(id, labelData, uid, t) ==
  [id |-> Num(id), userId |-> Num(id), name |-> labelData.name[1],
   color |-> OrStr(labelData.color, DefaultLabelColor), createdAt |-> t]

\* The record createLabel builds; labelData carries the caller's userId.
newLabel(id, labelData, uid, t) ==
  [id |-> Num(id), userId |-> parseInt(uid), name |-> labelData.name[1],
   color |-> OrStr(labelData.color, DefaultLabelColor), createdAt |-> t]

createLabel(ls, id, labelData, uid, t) == MapSet(ls, Str(id), newLabel(id, labelData, uid, t))

\* updateLabel(id, labelData): a missing or empty color keeps the stored color.
updateLabel(ls, id, labelData) ==
  IF ~MapHas(ls, id) THEN [ret |-> <<>>, labels |-> ls]
  ELSE LET label == MapGet(ls, id)[1]
           updatedLabel == [label EXCEPT !.name = labelData.name[1],
                                         !.color = OrStr(labelData.color, label.color)]
       IN  [ret |-> <<updatedLabel>>, labels |-> MapSet(ls, id, updatedLabel)]

deleteLabel(ls, id) == [ret |-> MapHas(ls, id), labels |-> MapDelete(ls, id)]

\* MongoStorage.updateLabel: findByIdAndUpdate with color || "#3b82f6".
mongoUpdateLabel(ls, id, labelData) ==
  IF ~MapHas(ls, id) THEN [ret |-> <<>>, labels |-> ls]
  ELSE LET label == MapGet(ls, id)[1]
           updatedLabel == [label EXCEPT !.name = labelData.name[1],
                                         !.color = OrStr(labelData.color, DefaultLabelColor)]
       IN  [ret |-> <<updatedLabel>>, labels |-> MapSet(ls, id, updatedLabel)]

\* ------------------------------------------------------------ request inputs
NoFields ==
  [title |-> <<>>, content |-> <<>>, summary |-> <<>>, pinned |-> <<>>, labels |-> <<>>,
   archived |-> <<>>, backgroundColor |-> <<>>, fontSize |-> <<>>, textFormatting |-> <<>>]

BodyPlain == [NoFields EXCEPT !.title = <<"t1">>, !.content = <<"c1">>]

BodyRich ==
  [NoFields EXCEPT !.title = <<"t2">>, !.content = <<"c2">>, !.summary = <<"mine">>,
                   !.pinned = <<TRUE>>, !.labels = <<<<Str(1)>>>>,
                   !.backgroundColor = <<"#fff475">>, !.fontSize = <<"large">>,
                   !.textFormatting = <<"{b}">>]

BodyOdd ==
  [NoFields EXCEPT !.title = <<"">>, !.content = <<"c1">>, !.archived = <<TRUE>>,
                   !.labels = <<<<Str(1), Str(1)>>>>]

BodyNulls ==
  [NoFields EXCEPT !.title = <<"t1">>, !.content = <<"c2">>, !.pinned = <<FALSE>>,
                   !.labels = <<NullLabels>>, !.backgroundColor = <<NULL>>]

BodyNoTitle == [NoFields EXCEPT !.content = <<"c1">>]

\* Bodies of POST /api/notes and PUT /api/notes/:id.
NoteBodies == {BodyPlain, BodyRich, BodyOdd, BodyNulls, BodyNoTitle}

\* Bodies of POST /api/labels and PUT /api/labels/:id.
LabelBodies ==
  {[name |-> <<"work">>, color |-> <<>>], [name |-> <<"home">>, color |-> <<"#ff0000">>],
   [name |-> <<"work">>, color |-> <<"">>], [name |-> <<>>, color |-> <<"#ff0000">>]}

\* Bodies of POST /api/auth/register.
UserBodies ==
  {[name |-> "Ann", email |-> <<e>>, password |-> pw] :
     e \in {"test@example.com", "ann@example.com"}, pw \in {<<"secret12">>, <<>>}}
  \cup {[name |-> "Ann", email |-> <<>>, password |-> <<"secret12">>]}

\* Bodies of POST /api/auth/login.
LoginBodies ==
  [email : {"test@example.com", "ann@example.com"}, password : {"password123", "secret12", "short"}]

\* :id, :noteId and :labelId of a route are strings; one of them names nothing.
NoteKeys  == {Str(i) : i \in 1..(MaxNotes + 1)}
LabelKeys == {Str(i) : i \in 1..(MaxLabels + 1)}

\* ?archived= of GET /api/notes ("" when the parameter is missing).
ArchivedParams == {"", "true", "false"}

\* What the OpenAI call yields: <<>> when it throws, else the message content.
Replies == {<<>>, <<"sum">>, <<"">>}

\* -------------------------------------------------------------- zod schemas
\* insertNoteSchema / updateNoteSchema: title and content are required strings.
validNote(body) == body.title # <<>> /\ body.content # <<>>

\* insertLabelSchema / updateLabelSchema: name is a required string.
validLabel(body) == body.name # <<>>

\* insertUserSchema: name and email are required, password may be missing.
validUser(body) == body.email # <<>>

\* loginUserSchema: password of at least 6 characters.
validLogin(body) == body.password # "short"

\* ------------------------------------------------------------------ routes
\* {...note} handed to updateNote: every field of the stored note is present.
Spread(note) ==
  [title |-> <<note.title>>, content |-> <<note.content>>, summary |-> <<note.summary>>,
   pinned |-> <<note.pinned>>, labels |-> <<note.labels>>, archived |-> <<note.archived>>,
   backgroundColor |-> <<note.backgroundColor>>, fontSize |-> <<note.fontSize>>,
   textFormatting |-> <<note.textFormatting>>]

\* The owner test of every note and label route:
\*   userIdNum = typeof x.userId === 'number' ? userId : parseInt(userId, 10)
\*   if (x.userId !== userIdNum) -> 403
denied(stored, uid) ==
  LET userIdNum == IF stored.t \in {"num", "nan"} THEN uid ELSE parseInt(uid)
  IN  ~StrictEq(stored, userIdNum)

\* A response that leaves the store as it is.
Reply(status, body) ==
  [status |-> status, body |-> body, summaryError |-> FALSE,
   notes |-> notes, labels |-> labels, pend |-> <<>>]

\* A response after a write to the notes map.
Wrote(status, body, ns) ==
  [status |-> status, body |-> body, summaryError |-> FALSE,
   notes |-> ns, labels |-> labels, pend |-> <<>>]

\* The handler is suspended at an await; req is what it holds across it.
Suspended(ns, req) ==
  [status |-> 0, body |-> <<>>, summaryError |-> FALSE,
   notes |-> ns, labels |-> labels, pend |-> <<req>>]

Held(op, uid, key, data, snap) ==
  [op |-> op, userId |-> uid, key |-> key, data |-> data, snap |-> snap]

\* GET /api/notes
listNotesRoute(c, archivedParam, labelParam) ==
  LET user == getUser(users, c.id)
      showArchived == archivedParam = "true"
      all == getNotesByUserId(notes, String(c.id))
      byArchive == IF ~showArchived THEN SelectSeq(all, LAMBDA note : ~note.archived) ELSE all
      byLabel == IF labelParam # <<>>
                 THEN SelectSeq(byArchive, LAMBDA note :
                        note.labels # NullLabels /\ Includes(note.labels, labelParam[1]))
                 ELSE byArchive
  IN  [status |-> 200, body |-> byLabel, user |-> user]

\* GET /api/notes/:id
getNoteRoute(c, id) ==
  LET note == getNoteById(notes, id)
  IN  IF note = <<>> THEN Reply(404, <<>>)
      ELSE IF denied(note[1].userId, c.id) THEN Reply(403, <<>>)
      ELSE Reply(200, note)

\* POST /api/notes, up to the response or to the await on summarizeNote
postNote(c, body, generateSummary) ==
  IF ~validNote(body) THEN Reply(400, <<>>)
  ELSE LET note == newNote(noteId, body, c.id, now)
           ns == createNote(notes, noteId, body, c.id, now)
       IN  IF generateSummary /\ apiKey
           THEN Suspended(ns, Held("postNote", c.id, String(note.id), body, <<note>>))
           ELSE Wrote(201, <<note>>, ns)

\* A PUT that writes first and looks at the owner afterwards.
putNoteWriteFirst(c, id, body, generateSummary) ==
  IF ~validNote(body) THEN Reply(400, <<>>)
  ELSE LET existingNote == getNoteById(notes, id)
       IN  IF existingNote = <<>> THEN Reply(404, <<>>)
           ELSE LET u == updateNote(notes, id, body, now)
                IN  IF denied(existingNote[1].userId, c.id) THEN Wrote(403, <<>>, u.notes)
                    ELSE IF generateSummary /\ apiKey
                         THEN Suspended(u.notes, Held("putNote", c.id, id, body, u.ret))
                         ELSE Wrote(200, u.ret, u.notes)

\* PUT /api/notes/:id, up to the response or to the await on summarizeNote
putNote(c, id, body, generateSummary) ==
  IF ~validNote(body) THEN Reply(400, <<>>)
  ELSE LET existingNote == getNoteById(notes, id)
       IN  IF existingNote = <<>> THEN Reply(404, <<>>)
           ELSE IF denied(existingNote[1].userId, c.id) THEN Reply(403, <<>>)
           ELSE LET u == updateNote(notes, id, body, now)
                IN  IF generateSummary /\ apiKey
                    THEN Suspended(u.notes, Held("putNote", c.id, id, body, u.ret))
                    ELSE Wrote(200, u.ret, u.notes)

\* DELETE /api/notes/:id
deleteNoteRoute(c, id) ==
  LET note == getNoteById(notes, id)
  IN  IF note = <<>> THEN Reply(404, <<>>)
      ELSE IF denied(note[1].userId, c.id) THEN Reply(403, <<>>)
      ELSE LET d == deleteNote(notes, id)
           IN  IF ~d.ret THEN Reply(500, <<>>) ELSE Wrote(200, <<>>, d.notes)

\* A toggle that sets the flag instead of negating it.
toggleRouteSet(c, id, field) ==
  LET note == getNoteById(notes, id)
  IN  IF note = <<>> THEN Reply(404, <<>>)
      ELSE IF denied(note[1].userId, c.id) THEN Reply(403, <<>>)
      ELSE LET data == IF field = "pinned"
                       THEN [Spread(note[1]) EXCEPT !.pinned = <<TRUE>>]
                       ELSE [Spread(note[1]) EXCEPT !.archived = <<TRUE>>]
               u == updateNote(notes, id, data, now)
           IN  IF u.ret = <<>> THEN Reply(500, <<>>) ELSE Wrote(200, u.ret, u.notes)

\* PATCH /api/notes/:id/pin and PATCH /api/notes/:id/archive
toggleRoute(c, id, field) ==
  LET note == getNoteById(notes, id)
  IN  IF note = <<>> THEN Reply(404, <<>>)
      ELSE IF denied(note[1].userId, c.id) THEN Reply(403, <<>>)
      ELSE LET data == IF field = "pinned"
                       THEN [Spread(note[1]) EXCEPT !.pinned = <<~note[1].pinned>>]
                       ELSE [Spread(note[1]) EXCEPT !.archived = <<~note[1].archived>>]
               u == updateNote(notes, id, data, now)
           IN  IF u.ret = <<>> THEN Reply(500, <<>>) ELSE Wrote(200, u.ret, u.notes)

\* POST /api/notes/:id/summary, up to the response or to the await on summarizeNote
summaryRoute(c, id) ==
  IF ~apiKey THEN Reply(503, <<>>)
  ELSE LET note == getNoteById(notes, id)
       IN  IF note = <<>> THEN Reply(404, <<>>)
           ELSE IF denied(note[1].userId, c.id) THEN Reply(403, <<>>)
           ELSE Suspended(notes, Held("summary", c.id, id, NoFields, note))

\* summarizeNote(text): the content, or the fallback text when it is empty.
summarizeNote(reply) == OrStr(reply, SummaryFallback)

\* A catch that answers the failure as a server error.
hardFailure(status, snap) == Reply(500, <<>>)

\* The catch around summarizeNote in POST and PUT /api/notes: the note as it
\* was written before the call, annotated, under the status of success.
softFailure(status, snap) == [Reply(status, snap) EXCEPT !.summaryError = TRUE]

\* The rest of a suspended note handler once the summarizer call has ended.
resumeNote(req, reply) ==
  IF req.op = "postNote" THEN
    IF reply = <<>>
    THEN softFailure(201, req.snap)
    ELSE LET u == updateNote(notes, req.key,
                             [req.data EXCEPT !.summary = <<summarizeNote(reply)>>], now)
         IN  Wrote(201, u.ret, u.notes)
  ELSE IF req.op = "putNote" THEN
    IF reply = <<>>
    THEN softFailure(200, req.snap)
    ELSE LET u == updateNote(notes, req.key,
                             [req.data EXCEPT !.summary = <<summarizeNote(reply)>>], now)
         IN  Wrote(200, u.ret, u.notes)
  ELSE
    IF reply = <<>>
    THEN Reply(500, <<>>)
    ELSE LET u == updateNote(notes, req.key,
                             [Spread(req.snap[1]) EXCEPT !.summary = <<summarizeNote(reply)>>], now)
         IN  Wrote(200, u.ret, u.notes)

\* PATCH /api/notes/:noteId/labels/:labelId on the maps ns and ls
setLabelOn(ns, ls, c, nId, lId, action) ==
  IF action # "add" /\ action # "remove" THEN [status |-> 400, body |-> <<>>, notes |-> ns]
  ELSE LET note == getNoteById(ns, nId)
           label == getLabelById(ls, lId)
       IN  IF note = <<>> THEN [status |-> 404, body |-> <<>>, notes |-> ns]
           ELSE IF label = <<>> THEN [status |-> 404, body |-> <<>>, notes |-> ns]
           ELSE IF denied(note[1].userId, c.id) THEN [status |-> 403, body |-> <<>>, notes |-> ns]
           ELSE IF denied(label[1].userId, c.id) THEN [status |-> 403, body |-> <<>>, notes |-> ns]
           ELSE LET currentLabels == OrLabels(<<note[1].labels>>)
                    labelIdStr == String(lId)
                    updatedLabels ==
                      IF action = "add"
                      THEN IF ~Includes(currentLabels, labelIdStr)
                           THEN Append(currentLabels, labelIdStr)
                           ELSE currentLabels
                      ELSE SelectSeq(currentLabels, LAMBDA x : x # labelIdStr)
                    u == updateNote(ns, nId,
                                    [Spread(note[1]) EXCEPT !.labels = <<updatedLabels>>], now)
                IN  [status |-> 200, body |-> u.ret, notes |-> u.notes]

\* The same route on the store of the server.
setLabelRoute(c, nId, lId, action) ==
  LET r == setLabelOn(notes, labels, c, nId, lId, action)
  IN  Wrote(r.status, r.body, r.notes)

\* A response after a write to the labels map.
WroteLabel(status, body, ls) ==
  [status |-> status, body |-> body, summaryError |-> FALSE,
   notes |-> notes, labels |-> ls, pend |-> <<>>]

\* GET /api/labels: the caller's labels by name (localeCompare).
listLabelsRoute(c) ==
  LET mine == {i \in 1..Len(labels) : StrictEq(String(labels[i].val.userId), String(c.id))}
  IN  [status |-> 200, body |-> {labels[i].val : i \in mine}]

\* GET /api/labels/:id
getLabelRoute(c, id) ==
  LET label == getLabelById(labels, id)
  IN  IF label = <<>> THEN Reply(404, <<>>)
      ELSE IF denied(label[1].userId, c.id) THEN Reply(403, <<>>)
      ELSE Reply(200, label)

\* POST /api/labels
postLabel(c, body) ==
  IF ~validLabel(body) THEN Reply(400, <<>>)
  ELSE WroteLabel(201, <<newLabel(labelId, body, c.id, now)>>,
                  createLabel(labels, labelId, body, c.id, now))

\* PUT /api/labels/:id
putLabel(c, id, body) ==
  IF ~validLabel(body) THEN Reply(400, <<>>)
  ELSE LET existingLabel == getLabelById(labels, id)
       IN  IF existingLabel = <<>> THEN Reply(404, <<>>)
           ELSE IF denied(existingLabel[1].userId, c.id) THEN Reply(403, <<>>)
           ELSE LET u == updateLabel(labels, id, body)
                IN  WroteLabel(200, u.ret, u.labels)

\* A deletion that also takes the label's identifier out of every note.
deleteLabelCascading(c, id) ==
  LET label == getLabelById(labels, id)
  IN  IF label = <<>> THEN Reply(404, <<>>)
      ELSE IF denied(label[1].userId, c.id) THEN Reply(403, <<>>)
      ELSE [status |-> 200, body |-> <<>>, summaryError |-> FALSE,
            notes |-> [i \in 1..Len(notes) |->
                         [notes[i] EXCEPT !.val.labels =
                            SelectSeq(notes[i].val.labels, LAMBDA x : x # id)]],
            labels |-> deleteLabel(labels, id).labels, pend |-> <<>>]

\* DELETE /api/labels/:id
deleteLabelRoute(c, id) ==
  LET label == getLabelById(labels, id)
  IN  IF label = <<>> THEN Reply(404, <<>>)
      ELSE IF denied(label[1].userId, c.id) THEN Reply(403, <<>>)
      ELSE LET d == deleteLabel(labels, id)
           IN  IF ~d.ret THEN Reply(500, <<>>) ELSE WroteLabel(200, <<>>, d.labels)

\* -------------------------------------------------------------------- auth
\* The payload of jwt.sign at register and at login.
claimsOf(user) == [id |-> user.id, email |-> user.email, name |-> user.name]

\* POST /api/auth/register up to the await on bcrypt.hash inside createUser:
\* 400 on a bad body, 409 on a taken email; else createUser takes the identifier
\* (this.userId++) and answers 500 when there is nothing to hash, or is suspended
\* (status 0) holding the identifier.
registerRoute(body) ==
  IF ~validUser(body) THEN [status |-> 400, userId |-> userId, pend |-> <<>>]
  ELSE IF getUserByEmail(users, body.email[1]) # <<>>
       THEN [status |-> 409, userId |-> userId, pend |-> <<>>]
  ELSE IF body.password = <<>> THEN [status |-> 500, userId |-> userId + 1, pend |-> <<>>]
  ELSE [status |-> 0, userId |-> userId + 1,
        pend |-> <<Held("register", NaN, Num(userId), body, <<>>)>>]

\* A createUser that looks the email up once more before it stores the user.
hashResolvedRechecked(req) ==
  LET user == newUser(req.key.n, req.data, now)
  IN  IF getUserByEmail(users, user.email) # <<>>
      THEN [status |-> 409, user |-> user, users |-> users, token |-> <<>>]
      ELSE [status |-> 201, user |-> user,
            users |-> MapSet(users, String(user.id), user),
            token |-> IF req.op = "register" THEN <<claimsOf(user)>> ELSE <<>>]

\* The rest of createUser once bcrypt.hash has resolved, and of register after it:
\* this.users.set(String(id), user), then jwt.sign for the user, status 201.
hashResolved(req) ==
  LET user == newUser(req.key.n, req.data, now)
  IN  [status |-> 201, user |-> user,
       users |-> MapSet(users, String(user.id), user),
       token |-> IF req.op = "register" THEN <<claimsOf(user)>> ELSE <<>>]

\* POST /api/auth/login; bcrypt.compare throws on a user without a hash, which
\* the route's catch answers with 500.
loginRoute(body) ==
  IF ~validLogin(body) THEN [status |-> 400, token |-> <<>>, message |-> "validation"]
  ELSE LET user == getUserByEmail(users, body.email)
       IN  IF user = <<>>
           THEN [status |-> 401, token |-> <<>>, message |-> "Invalid email or password"]
           ELSE IF user[1].password = NULL
                THEN [status |-> 500, token |-> <<>>, message |-> "Failed to log in"]
           ELSE IF ~bcryptCompare(body.password, user[1].password)
                THEN [status |-> 401, token |-> <<>>, message |-> "Invalid email or password"]
                ELSE [status |-> 200, token |-> <<claimsOf(user[1])>>, message |-> ""]

\* The verify callback of the passport LocalStrategy: done(null, user) or
\* done(null, false, {message}).
localStrategy(email, password) ==
  LET user == getUserByEmail(users, email)
  IN  IF user = <<>> THEN [user |-> <<>>, message |-> "User not found"]
      ELSE IF user[1].password = NULL
           THEN [user |-> <<>>, message |-> "Login with social account instead"]
      ELSE IF ~bcryptCompare(password, user[1].password)
           THEN [user |-> <<>>, message |-> "Incorrect password"]
           ELSE [user |-> user, message |-> ""]

\* The methods the exported storage object (new MemStorage()) has.
MemStorageMethods ==
  {"addTestUser", "getUser", "getUserByEmail", "createUser", "getNotesByUserId",
   "getNoteById", "createNote", "updateNote", "deleteNote", "getLabelsByUserId",
   "getLabelById", "createLabel", "updateLabel", "deleteLabel"}

\* Verified profiles a provider hands to the verify callback: an identifier and
\* an email, which may be missing, of a stored user or of nobody.
Profiles ==
  {[id |-> "g1", email |-> e, displayName |-> "Gil"] :
     e \in {<<>>, <<"test@example.com">>, <<"gil@example.com">>}}

\* The provider identifier a stored user carries: createUser builds the user
\* from id, name, email, password and createdAt, so none does.
googleIdOf(user) == <<>>

\* A lookup of a stored user by provider identifier.
getUserByGoogleId(us, id) ==
  LET hits == SelectSeq(MapValues(us), LAMBDA u : googleIdOf(u) = <<id>>)
  IN  IF hits = <<>> THEN <<>> ELSE <<Head(hits)>>

\* The verify callback of the Google strategy (the Facebook and Microsoft ones
\* have the same shape): done(error) or done(null, user). The call of a method
\* the storage object does not have throws; createUser takes an identifier and
\* then rejects at bcrypt.hash, as the profile brings no password.
googleVerify(profile) ==
  IF "getUserByGoogleId" \notin MemStorageMethods
  THEN [error |-> TRUE, user |-> <<>>, users |-> users, userId |-> userId]
  ELSE LET byId == getUserByGoogleId(users, profile.id)
           byEmail == IF profile.email # <<>> THEN getUserByEmail(users, profile.email[1]) ELSE <<>>
       IN  IF byId # <<>> THEN [error |-> FALSE, user |-> byId, users |-> users, userId |-> userId]
           ELSE IF byEmail # <<>>
                THEN [error |-> FALSE, user |-> byEmail, users |-> users, userId |-> userId]
                ELSE [error |-> TRUE, user |-> <<>>, users |-> users, userId |-> userId + 1]

\* ------------------------------------------------------------------ tokens
\* JWT_SECRET of routes.ts and of the passport module: the environment's secret,
\* or each module's own default.
routeSecret(env) == IF env = <<>> THEN RouteSecretDefault ELSE env[1]
passportSecret(env) == IF env = <<>> THEN PassportSecretDefault ELSE env[1]

\* jwt.sign(payload, secret, {expiresIn}) at time t.
jwtSign(payload, secret, t, ttl) ==
  [payload |-> payload, secret |-> secret, iat |-> t, exp |-> t + ttl]

\* A verification that looks at the expiry alone.
jwtVerifyAnyKey(token, secret, t) ==
  IF t < token.exp THEN <<token.payload>> ELSE <<>>

\* jwt.verify(token, secret) at time t: the payload, or <<>> when it throws
\* (bad signature, or the clock has reached exp).
jwtVerify(token, secret, t) ==
  IF token.secret = secret /\ t < token.exp THEN <<token.payload>> ELSE <<>>

\* The token signed by register and by login (routes.ts), or by generateToken
\* (passport module) for the provider flows.
issueToken(how, user, env, t) ==
  IF how = "generateToken"
  THEN jwtSign([id |-> user.id, email |-> user.email], passportSecret(env), t, PassportTtl)
  ELSE jwtSign(claimsOf(user), routeSecret(env), t, RouteTtl)

\* authenticateToken of routes.ts: status 0 stands for next().
authenticateToken(token, env, t) ==
  LET user == jwtVerify(token, routeSecret(env), t)
  IN  IF user = <<>>
      THEN [status |-> 403, user |-> <<>>, message |-> "Invalid or expired token"]
      ELSE [status |-> 0, user |-> user, message |-> ""]

\* authenticateJWT of the passport module: req.user is the stored user.
authenticateJWT(us, token, env, t) ==
  LET decoded == jwtVerify(token, passportSecret(env), t)
  IN  IF decoded = <<>>
      THEN [status |-> 401, user |-> <<>>, message |-> "Invalid or expired token"]
      ELSE LET user == getUser(us, decoded[1].id)
           IN  IF user = <<>>
               THEN [status |-> 401, user |-> <<>>, message |-> "User not found"]
               ELSE [status |-> 0, user |-> user, message |-> ""]

\* ------------------------------------------------------------------- state
Init ==
  /\ users = <<>>
  /\ notes = <<>>
  /\ labels = <<>>
  /\ userId = 2
  /\ noteId = 1
  /\ labelId = 1
  /\ tokens = {}
  /\ now = 0
  /\ apiKey \in BOOLEAN
  /\ pending = {Held("addTestUser", NaN, Num(1), TestUserData, <<>>)}
  /\ inflight = 1
  /\ jwtEnv \in Envs
  /\ nops = 0
  /\ out = <<>>

\* A new request may enter; a state-changing one also needs budget.
CanStart == Cardinality(pending) < inflight

CanWrite == CanStart /\ nops < MaxOps

\* What a note or label handler leaves behind.
Apply(r) ==
  /\ notes' = r.notes
  /\ labels' = r.labels
  /\ pending' = pending \cup {r.pend[i] : i \in 1..Len(r.pend)}
  /\ nops' = IF r.status < 400 THEN nops + 1 ELSE nops

\* A handler that answers with an error has changed nothing; others need budget.
Admit(r) == CanStart /\ (r.status < 400 => nops < MaxOps)

\* The clock moves on between any two steps.
Tick ==
  /\ now < MaxTime
  /\ now' = now + 1
  /\ UNCHANGED <<users, notes, labels, userId, noteId, labelId, tokens, apiKey,
                 pending, inflight, jwtEnv, nops, out>>

\* bcrypt.hash resolves: createUser stores the user, register signs the token.
HashDone ==
  \E req \in pending :
    LET r == hashResolved(req) IN
    /\ req.op \in {"addTestUser", "register"}
    /\ users' = r.users
    /\ tokens' = tokens \cup {r.token[i] : i \in 1..Len(r.token)}
    /\ pending' = pending \ {req}
    /\ UNCHANGED <<notes, labels, userId, noteId, labelId, now, apiKey, inflight, jwtEnv, nops, out>>

Register ==
  \E body \in UserBodies :
    LET r == registerRoute(body) IN
    /\ CanStart
    /\ r.userId # userId => (nops < MaxOps /\ userId <= MaxUsers)
    /\ userId' = r.userId
    /\ nops' = IF r.userId # userId THEN nops + 1 ELSE nops
    /\ pending' = pending \cup {r.pend[i] : i \in 1..Len(r.pend)}
    /\ UNCHANGED <<users, notes, labels, noteId, labelId, tokens, now, apiKey, inflight, jwtEnv, out>>

Login ==
  \E body \in LoginBodies :
    LET r == loginRoute(body) IN
    /\ CanStart
    /\ tokens' = tokens \cup {r.token[i] : i \in 1..Len(r.token)}
    /\ UNCHANGED <<users, notes, labels, userId, noteId, labelId, now, apiKey,
                   pending, inflight, jwtEnv, nops, out>>

\* A password login through passport's LocalStrategy.
LocalLogin ==
  \E body \in LoginBodies :
    /\ CanStart
    /\ localStrategy(body.email, body.password).message \in STRING
    /\ UNCHANGED vars

\* A sign-in through a provider reaches the strategy's verify callback.
SocialLogin ==
  \E profile \in Profiles :
    LET r == googleVerify(profile) IN
    /\ CanStart
    /\ r.userId # userId => userId <= MaxUsers
    /\ users' = r.users
    /\ userId' = r.userId
    /\ UNCHANGED <<notes, labels, noteId, labelId, tokens, now, apiKey,
                   pending, inflight, jwtEnv, nops, out>>

\* GET /api/auth/me answers with the claims of the token.
Me ==
  \E c \in tokens :
    /\ CanStart
    /\ claimsOf(c) = c
    /\ UNCHANGED vars

ListNotes ==
  \E c \in tokens, a \in ArchivedParams, l \in {<<>>} \cup {<<k>> : k \in LabelKeys} :
    /\ CanStart
    /\ listNotesRoute(c, a, l).status = 200
    /\ UNCHANGED vars

GetNote ==
  \E c \in tokens, id \in NoteKeys :
    /\ CanStart
    /\ getNoteRoute(c, id).status \in {200, 403, 404}
    /\ UNCHANGED vars

CreateNote ==
  \E c \in tokens, body \in NoteBodies, generateSummary \in BOOLEAN :
    LET r == postNote(c, body, generateSummary) IN
    /\ Admit(r)
    /\ r.status < 400 => noteId <= MaxNotes
    /\ Apply(r)
    /\ noteId' = IF r.status < 400 THEN noteId + 1 ELSE noteId
    /\ UNCHANGED <<users, labels, userId, labelId, tokens, now, apiKey, inflight, jwtEnv, out>>

UpdateNote ==
  \E c \in tokens, id \in NoteKeys, body \in NoteBodies, generateSummary \in BOOLEAN :
    LET r == putNote(c, id, body, generateSummary) IN
    /\ Admit(r)
    /\ Apply(r)
    /\ UNCHANGED <<users, labels, userId, noteId, labelId, tokens, now, apiKey, inflight, jwtEnv, out>>

DeleteNote ==
  \E c \in tokens, id \in NoteKeys :
    LET r == deleteNoteRoute(c, id) IN
    /\ Admit(r)
    /\ Apply(r)
    /\ UNCHANGED <<users, labels, userId, noteId, labelId, tokens, now, apiKey, inflight, jwtEnv, out>>

TogglePin ==
  \E c \in tokens, id \in NoteKeys :
    LET r == toggleRoute(c, id, "pinned") IN
    /\ Admit(r)
    /\ Apply(r)
    /\ UNCHANGED <<users, labels, userId, noteId, labelId, tokens, now, apiKey, inflight, jwtEnv, out>>

ToggleArchive ==
  \E c \in tokens, id \in NoteKeys :
    LET r == toggleRoute(c, id, "archived") IN
    /\ Admit(r)
    /\ Apply(r)
    /\ UNCHANGED <<users, labels, userId, noteId, labelId, tokens, now, apiKey, inflight, jwtEnv, out>>

RequestSummary ==
  \E c \in tokens, id \in NoteKeys :
    LET r == summaryRoute(c, id) IN
    /\ Admit(r)
    /\ Apply(r)
    /\ UNCHANGED <<users, labels, userId, noteId, labelId, tokens, now, apiKey, inflight, jwtEnv, out>>

\* The summarizer call of a suspended handler ends, with a text or by throwing.
SummarizerDone ==
  \E req \in pending, reply \in Replies :
    LET r == resumeNote(req, reply) IN
    /\ req.op \in {"postNote", "putNote", "summary"}
    /\ notes' = r.notes
    /\ pending' = pending \ {req}
    /\ UNCHANGED <<users, labels, userId, noteId, labelId, tokens, now, apiKey,
                   inflight, jwtEnv, nops, out>>

SetLabelOnNote ==
  \E c \in tokens, nId \in NoteKeys, lId \in LabelKeys, action \in {"add", "remove", "toggle"} :
    LET r == setLabelRoute(c, nId, lId, action) IN
    /\ Admit(r)
    /\ Apply(r)
    /\ UNCHANGED <<users, labels, userId, noteId, labelId, tokens, now, apiKey, inflight, jwtEnv, out>>

ListLabels ==
  \E c \in tokens :
    /\ CanStart
    /\ listLabelsRoute(c).status = 200
    /\ UNCHANGED vars

GetLabel ==
  \E c \in tokens, id \in LabelKeys :
    /\ CanStart
    /\ getLabelRoute(c, id).status \in {200, 403, 404}
    /\ UNCHANGED vars

CreateLabel ==
  \E c \in tokens, body \in LabelBodies :
    LET r == postLabel(c, body) IN
    /\ Admit(r)
    /\ r.status < 400 => labelId <= MaxLabels
    /\ Apply(r)
    /\ labelId' = IF r.status < 400 THEN labelId + 1 ELSE labelId
    /\ UNCHANGED <<users, userId, noteId, tokens, now, apiKey, inflight, jwtEnv, out>>

UpdateLabel ==
  \E c \in tokens, id \in LabelKeys, body \in LabelBodies :
    LET r == putLabel(c, id, body) IN
    /\ Admit(r)
    /\ Apply(r)
    /\ UNCHANGED <<users, userId, noteId, labelId, tokens, now, apiKey, inflight, jwtEnv, out>>

DeleteLabel ==
  \E c \in tokens, id \in LabelKeys :
    LET r == deleteLabelRoute(c, id) IN
    /\ Admit(r)
    /\ Apply(r)
    /\ UNCHANGED <<users, userId, noteId, labelId, tokens, now, apiKey, inflight, jwtEnv, out>>

Next ==
  \/ Tick
  \/ HashDone
  \/ Register
  \/ Login
  \/ LocalLogin
  \/ SocialLogin
  \/ Me
  \/ ListNotes
  \/ GetNote
  \/ CreateNote
  \/ UpdateNote
  \/ DeleteNote
  \/ TogglePin
  \/ ToggleArchive
  \/ RequestSummary
  \/ SummarizerDone
  \/ SetLabelOnNote
  \/ ListLabels
  \/ GetLabel
  \/ CreateLabel
  \/ UpdateLabel
  \/ DeleteLabel

Spec == Init /\ [][Next]_vars

\* The server with the progress its own scheduling gives: bcrypt.hash is local
\* work that ends, so a handler waiting for it goes on. Nothing in the server
\* ends a summarizer call (the client is built with the API key alone and the
\* handlers set no timer), so that step is taken only when the collaborator
\* answers or fails.
SpecLive == Init /\ [][Next]_vars /\ WF_vars(HashDone)

\* ------------------------------------------------- store-level scenarios
\* The two users every scenario store belongs to.
TwoUsers ==
  <<[key |-> Str(1), val |-> newUser(1, TestUserData, 0)],
    [key |-> Str(2), val |-> newUser(2, [name |-> "Ann", email |-> <<"ann@example.com">>,
                                         password |-> <<"secret12">>], 0)]>>

\* A notes map of notes created at time 0 in key order; f gives each its
\* owner, its pinned flag and the time of its last update.
ListStore(f) ==
  [i \in DOMAIN f |->
     [key |-> Str(i),
      val |-> [newNote(i, BodyPlain, Num(f[i].owner), 0) EXCEPT
                 !.pinned = f[i].pinned, !.updatedAt = f[i].updatedAt]]]

InitList ==
  /\ users = TwoUsers
  /\ \E n \in 0..MaxListLen :
       \E f \in [1..n -> [owner : 1..2, pinned : BOOLEAN, updatedAt : 0..MaxTime]] :
         notes = ListStore(f)
  /\ labels = <<>>
  /\ userId = 3
  /\ noteId = Len(notes) + 1
  /\ labelId = 1
  /\ tokens = {}
  /\ now = MaxTime
  /\ apiKey = FALSE
  /\ pending = {}
  /\ inflight = 1
  /\ jwtEnv = <<>>
  /\ nops = 0
  /\ out = <<>>

\* storage.getNotesByUserId(uid) called on the store.
StoreList ==
  \E uid \in {Str(1), Str(2)} :
    /\ out' = <<[op |-> "getNotesByUserId", userId |-> uid, ret |-> getNotesByUserId(notes, uid)]>>
    /\ UNCHANGED <<users, notes, labels, userId, noteId, labelId, tokens, now, apiKey,
                   pending, inflight, jwtEnv, nops>>

SpecList == InitList /\ [][StoreList]_vars

\* Partial payloads of updateNote: every choice of fields, each with a new value.
PartialValues ==
  [title |-> <<"t9">>, content |-> <<"c9">>, summary |-> <<"s9">>, pinned |-> <<TRUE>>,
   labels |-> <<<<Str(2)>>>>, archived |-> <<TRUE>>, backgroundColor |-> <<"#000000">>,
   fontSize |-> <<"small">>, textFormatting |-> <<"{i}">>]

Partials ==
  {[f \in DOMAIN NoFields |-> IF f \in chosen THEN PartialValues[f] ELSE <<>>] :
     chosen \in SUBSET DOMAIN NoFields}

InitUpdate ==
  /\ users = TwoUsers
  /\ \E b \in {x \in NoteBodies : validNote(x)}, owner \in 1..2 :
       notes = createNote(<<>>, 1, b, Num(owner), 0)
  /\ labels = <<>>
  /\ userId = 3
  /\ noteId = 2
  /\ labelId = 1
  /\ tokens = {}
  /\ now \in 0..MaxTime
  /\ apiKey = FALSE
  /\ pending = {}
  /\ inflight = 1
  /\ jwtEnv = <<>>
  /\ nops = 0
  /\ out = <<>>

\* storage.updateNote(id, partial) called once on the store.
StoreUpdate ==
  \E id \in {Str(1), Str(2)}, partial \in Partials :
    LET u == updateNote(notes, id, partial, now) IN
    /\ out = <<>>
    /\ notes' = u.notes
    /\ out' = <<[op |-> "updateNote", id |-> id, data |-> partial,
                 before |-> getNoteById(notes, id), ret |-> u.ret]>>
    /\ UNCHANGED <<users, labels, userId, noteId, labelId, tokens, now, apiKey,
                   pending, inflight, jwtEnv, nops>>

SpecUpdate == InitUpdate /\ [][StoreUpdate]_vars

\* ------------------------------------------------- token scenarios
\* Who signs a token: the two routes, generateToken, or somebody without the
\* server's secret.
Issuers == {"register", "login", "generateToken", "forged"}
Gates == {"authenticateToken", "authenticateJWT"}

InitToken ==
  /\ users = TwoUsers
  /\ notes = <<>>
  /\ labels = <<>>
  /\ userId = 3
  /\ noteId = 1
  /\ labelId = 1
  /\ tokens = {}
  /\ now = 0
  /\ apiKey = FALSE
  /\ pending = {}
  /\ inflight = 1
  /\ jwtEnv \in Envs
  /\ nops = 0
  /\ out = <<>>

\* A day passes.
ClockTick ==
  /\ now < MaxClock
  /\ now' = now + 1
  /\ UNCHANGED <<users, notes, labels, userId, noteId, labelId, tokens, apiKey,
                 pending, inflight, jwtEnv, nops, out>>

\* A token is signed for a stored user.
IssueToken ==
  \E i \in 1..Len(users), how \in Issuers :
    LET user == users[i].val
        token == IF how = "forged"
                 THEN jwtSign(claimsOf(user), "attacker-secret", now, RouteTtl)
                 ELSE issueToken(how, user, jwtEnv, now)
    IN  /\ out' = <<[op |-> "issue", how |-> how, user |-> user, token |-> token]>>
        /\ UNCHANGED <<users, notes, labels, userId, noteId, labelId, tokens, now, apiKey,
                       pending, inflight, jwtEnv, nops>>

\* The token is presented with POST /api/notes behind one of the two gates; the
\* route runs only after next().
PresentToken ==
  \E gate \in Gates :
    LET held == out[1]
        res == IF gate = "authenticateToken"
               THEN authenticateToken(held.token, jwtEnv, now)
               ELSE authenticateJWT(users, held.token, jwtEnv, now)
        r == IF res.status = 0 THEN postNote(res.user[1], BodyPlain, FALSE)
             ELSE Reply(res.status, <<>>)
    IN  /\ out # <<>>
        /\ r.status < 400 => noteId <= MaxNotes
        /\ notes' = r.notes
        /\ noteId' = IF r.status < 400 THEN noteId + 1 ELSE noteId
        /\ out' = <<[op |-> "present", how |-> held.how, user |-> held.user,
                     token |-> held.token, gate |-> gate, at |-> now, res |-> res,
                     status |-> r.status, before |-> notes]>>
        /\ UNCHANGED <<users, labels, userId, labelId, tokens, now, apiKey,
                       pending, inflight, jwtEnv, nops>>

NextToken == ClockTick \/ IssueToken \/ PresentToken

SpecToken == InitToken /\ [][NextToken]_vars

\* ------------------------------------------------------- overlapping requests
\* The same server with two requests in flight: a second handler may run while
\* another is suspended at bcrypt.hash or at the summarizer call. The summarizer
\* is configured (OPENAI_API_KEY is set).
InitRace ==
  /\ users = <<>>
  /\ notes = <<>>
  /\ labels = <<>>
  /\ userId = 2
  /\ noteId = 1
  /\ labelId = 1
  /\ tokens = {}
  /\ now = 0
  /\ apiKey = TRUE
  /\ pending = {Held("addTestUser", NaN, Num(1), TestUserData, <<>>)}
  /\ inflight = 2
  /\ jwtEnv = <<>>
  /\ nops = 0
  /\ out = <<>>

SpecRace == InitRace /\ [][Next]_vars

\* ------------------------------------------------------------ text formatter
\* A note's content is a string of at most MaxContentLen characters; one
\* character stands for each class the formatter's patterns tell apart.
MaxContentLen == 5
FormatChars == {"#", "-", "*", "1", ".", " ", "a", "\n"}

\* The index where the run of characters of S that starts at from ends
\* (from - 1 when there is none): what a greedy \s*, \s+, #+ or \d+ consumes.
Run(line, from, S) ==
  LET ends == {j \in (from - 1)..Len(line) : \A i \in from..j : line[i] \in S}
  IN  CHOOSE j \in ends : \A m \in ends : m <= j

\* content.split('\n')
RECURSIVE splitLines(_)
splitLines(content) ==
  LET breaks == {i \in 1..Len(content) : content[i] = "\n"}
  IN  IF breaks = {} THEN <<content>>
      ELSE LET i == CHOOSE b \in breaks : \A m \in breaks : b <= m
           IN  <<SubSeq(content, 1, i - 1)>> \o splitLines(SubSeq(content, i + 1, Len(content)))

\* /^#{1,3}\s+/.test(line)
testHeading(line) ==
  \E k \in 1..3 :
    /\ k < Len(line)
    /\ \A i \in 1..k : line[i] = "#"
    /\ line[k + 1] = " "

\* line.replace(/^#+\s+/, '')
stripHeading(line) ==
  LET h == Run(line, 1, {"#"})
      w == Run(line, h + 1, {" "})
  IN  IF h >= 1 /\ w > h THEN SubSeq(line, w + 1, Len(line)) ELSE line

\* /^\s*[\-\*]\s+/.test(line)
testBullet(line) ==
  LET s == Run(line, 1, {" "})
  IN  s + 2 <= Len(line) /\ line[s + 1] \in {"-", "*"} /\ line[s + 2] = " "

\* line.replace(/^\s*[\-\*]\s+/, '')
stripBullet(line) ==
  LET s == Run(line, 1, {" "})
  IN  SubSeq(line, Run(line, s + 2, {" "}) + 1, Len(line))

\* /^\s*\d+\.\s+/.test(line)
testNumbered(line) ==
  LET s == Run(line, 1, {" "})
      d == Run(line, s + 1, {"1"})
  IN  d > s /\ d + 2 <= Len(line) /\ line[d + 1] = "." /\ line[d + 2] = " "

\* line.replace(/^\s*\d+\.\s+/, '')
stripNumbered(line) ==
  LET d == Run(line, Run(line, 1, {" "}) + 1, {"1"})
  IN  SubSeq(line, Run(line, d + 2, {" "}) + 1, Len(line))

\* The element formatContent returns for one line; text is what the element
\* holds (for li and p, what is handed to processInlineFormatting).
formatLine(line) ==
  IF testHeading(line) THEN
    LET level == Run(line, 1, {"#"})
    IN  [tag |-> CASE level = 1 -> "h1" [] level = 2 -> "h2" [] level = 3 -> "h3"
                   [] OTHER -> "p",
         text |-> stripHeading(line), decimal |-> FALSE]
  ELSE IF testBullet(line) THEN [tag |-> "li", text |-> stripBullet(line), decimal |-> FALSE]
  ELSE IF testNumbered(line) THEN [tag |-> "li", text |-> stripNumbered(line), decimal |-> TRUE]
  ELSE IF \A i \in 1..Len(line) : line[i] = " " THEN [tag |-> "br", text |-> <<>>, decimal |-> FALSE]
  ELSE [tag |-> "p", text |-> line, decimal |-> FALSE]

\* formatContent(content): null (nothing is rendered, <<>>) for an empty
\* content, else one element per line.
formatContent(content) ==
  IF content = <<>> THEN <<>>
  ELSE LET lines == splitLines(content)
       IN  [i \in 1..Len(lines) |-> formatLine(lines[i])]

\* NoteDetail is shown some content.
InitFormat ==
  /\ users = <<>>
  /\ notes = <<>>
  /\ labels = <<>>
  /\ userId = 2
  /\ noteId = 1
  /\ labelId = 1
  /\ tokens = {}
  /\ now = 0
  /\ apiKey = FALSE
  /\ pending = {}
  /\ inflight = 1
  /\ jwtEnv = <<>>
  /\ nops = 0
  /\ \E n \in 0..MaxContentLen : \E content \in [1..n -> FormatChars] :
       out = <<[content |-> content, done |-> FALSE, blocks |-> <<>>]>>

\* The page renders: formatContent(note.content).
Format ==
  /\ ~out[1].done
  /\ out' = <<[content |-> out[1].content, done |-> TRUE,
               blocks |-> formatContent(out[1].content)]>>
  /\ UNCHANGED <<users, notes, labels, userId, noteId, labelId, tokens, now, apiKey,
                 pending, inflight, jwtEnv, nops>>

SpecFormat == InitFormat /\ [][Format]_vars

\* ------------------------------------------------------------------ claims
\* The caller c and the stored owner identifier denote the same user.
SameUser(c, stored) == String(c.id) = String(stored)

\* A 403 that hands out nothing and leaves the store as it is.
Forbidden(r) ==
  /\ r.status = 403
  /\ r.body = <<>>
  /\ r.notes = notes
  /\ r.labels = labels
  /\ r.pend = <<>>

\* Well-formed request inputs: bodies the schemas accept, actions the route knows.
GoodNoteBodies == {b \in NoteBodies : validNote(b)}
GoodLabelBodies == {b \in LabelBodies : validLabel(b)}
Actions == {"add", "remove"}

\* C1: every well-formed get, update, delete, pin, archive, requestSummary and
\* setLabelOnNote request on an existing note or label of another owner answers
\* 403, returns nothing and leaves the store unchanged.
C1_Ownership ==
  \A c \in tokens :
    /\ \A i \in 1..Len(notes) :
         LET id == notes[i].key IN
         ~SameUser(c, notes[i].val.userId) =>
           /\ Forbidden(getNoteRoute(c, id))
           /\ \A b \in GoodNoteBodies, g \in BOOLEAN : Forbidden(putNote(c, id, b, g))
           /\ Forbidden(deleteNoteRoute(c, id))
           /\ Forbidden(toggleRoute(c, id, "pinned"))
           /\ Forbidden(toggleRoute(c, id, "archived"))
           /\ Forbidden(summaryRoute(c, id))
           /\ \A l \in LabelKeys, a \in Actions : Forbidden(setLabelRoute(c, id, l, a))
    /\ \A i \in 1..Len(labels) :
         LET id == labels[i].key IN
         ~SameUser(c, labels[i].val.userId) =>
           /\ Forbidden(getLabelRoute(c, id))
           /\ \A b \in GoodLabelBodies : Forbidden(putLabel(c, id, b))
           /\ Forbidden(deleteLabelRoute(c, id))
           /\ \A n \in NoteKeys, a \in Actions : Forbidden(setLabelRoute(c, n, id, a))

\* C2: the owner test of a note or label route accepts the caller exactly when
\* caller and stored owner are the same identifier after normalization, and
\* getUser called with the caller's identifier as the token carries it (GET
\* /api/notes does so) finds the user stored under the string form of it.
C2_Normalized ==
  \A c \in tokens :
    /\ \A i \in 1..Len(notes) :
         (getNoteRoute(c, notes[i].key).status # 403) <=> SameUser(c, notes[i].val.userId)
    /\ \A i \in 1..Len(labels) :
         (getLabelRoute(c, labels[i].key).status # 403) <=> SameUser(c, labels[i].val.userId)
    /\ MapHas(users, String(c.id)) => listNotesRoute(c, "", <<>>).user # <<>>

\* C3: for every well-formed note and label request the target's existence is
\* settled first (missing: 404) and its ownership second (foreign: 403); nothing
\* else answers before them, and a 403 is only given for an existing entity.
C3_CheckOrder ==
  \A c \in tokens :
    LET Ordered(r, found, mine) ==
          /\ ~found => r.status = 404
          /\ (found /\ ~mine) => r.status = 403
          /\ r.status = 403 => found
        NoteFound(id) == MapHas(notes, id)
        NoteMine(id) == MapHas(notes, id) /\ SameUser(c, MapGet(notes, id)[1].userId)
        LabelFound(id) == MapHas(labels, id)
        LabelMine(id) == MapHas(labels, id) /\ SameUser(c, MapGet(labels, id)[1].userId)
    IN
    /\ \A id \in NoteKeys :
         /\ Ordered(getNoteRoute(c, id), NoteFound(id), NoteMine(id))
         /\ \A b \in GoodNoteBodies, g \in BOOLEAN :
              Ordered(putNote(c, id, b, g), NoteFound(id), NoteMine(id))
         /\ Ordered(deleteNoteRoute(c, id), NoteFound(id), NoteMine(id))
         /\ Ordered(toggleRoute(c, id, "pinned"), NoteFound(id), NoteMine(id))
         /\ Ordered(toggleRoute(c, id, "archived"), NoteFound(id), NoteMine(id))
         /\ Ordered(summaryRoute(c, id), NoteFound(id), NoteMine(id))
         /\ \A l \in LabelKeys, a \in Actions :
              Ordered(setLabelRoute(c, id, l, a), NoteFound(id), NoteMine(id))
    /\ \A id \in LabelKeys :
         /\ Ordered(getLabelRoute(c, id), LabelFound(id), LabelMine(id))
         /\ \A b \in GoodLabelBodies : Ordered(putLabel(c, id, b), LabelFound(id), LabelMine(id))
         /\ Ordered(deleteLabelRoute(c, id), LabelFound(id), LabelMine(id))

\* C4: GET /api/notes without archived or with archived=false lists exactly the
\* caller's notes that are not archived; with archived=true only archived notes.
C4_ArchiveFilter ==
  \A c \in tokens :
    LET mine == getNotesByUserId(notes, String(c.id)) IN
    /\ \A a \in {"", "false"} :
         listNotesRoute(c, a, <<>>).body = SelectSeq(mine, LAMBDA note : ~note.archived)
    /\ LET got == listNotesRoute(c, "true", <<>>).body
       IN  \A i \in 1..Len(got) : got[i].archived

\* C5: getNotesByUserId returns every note of the owner and no other, pinned
\* notes before unpinned ones, inside each group by updatedAt descending, and
\* notes of equal updatedAt in the order they were inserted.
C5_ListOrder ==
  \A k \in 1..Len(out) :
    LET res == out[k].ret
        owned == SelectSeq(MapValues(notes), LAMBDA n : String(n.userId) = out[k].userId)
        place(n) == MapIdx(notes, String(n.id))
    IN
    out[k].op = "getNotesByUserId" =>
      /\ Len(res) = Len(owned)
      /\ {res[i] : i \in 1..Len(res)} = {owned[i] : i \in 1..Len(owned)}
      /\ \A i, j \in 1..Len(res) :
           i < j =>
             /\ res[j].pinned => res[i].pinned
             /\ res[i].pinned = res[j].pinned => res[i].updatedAt >= res[j].updatedAt
             /\ (res[i].pinned = res[j].pinned /\ res[i].updatedAt = res[j].updatedAt)
                  => place(res[i]) < place(res[j])

\* A listing of three notes of one owner: an unpinned one stored before a pinned
\* one, and two with the same flag and time.
C5_Witness ==
  /\ out # <<>>
  /\ out[1].op = "getNotesByUserId"
  /\ Len(out[1].ret) = 3
  /\ \E i, j \in 1..3 : i < j /\ ~notes[i].val.pinned /\ notes[j].val.pinned
                        /\ notes[i].val.userId = notes[j].val.userId
  /\ \E i, j \in 1..3 : i < j /\ out[1].ret[i].pinned = out[1].ret[j].pinned
                        /\ out[1].ret[i].updatedAt = out[1].ret[j].updatedAt
  /\ \E i, j \in 1..3 : out[1].ret[i].updatedAt > out[1].ret[j].updatedAt

\* C7: updateNote with a partial payload leaves every field that is absent from
\* the payload, and id, owner and createdAt, at the value stored before; what it
\* returns is what it stored.
C7_PartialUpdate ==
  \A k \in 1..Len(out) :
    (out[k].op = "updateNote" /\ out[k].before # <<>>) =>
      LET old == out[k].before[1]
          new == out[k].ret[1]
      IN  /\ out[k].ret # <<>>
          /\ getNoteById(notes, out[k].id) = out[k].ret
          /\ \A f \in DOMAIN NoFields : out[k].data[f] = <<>> => new[f] = old[f]
          /\ new.id = old.id
          /\ new.userId = old.userId
          /\ new.createdAt = old.createdAt

\* update(n, {title}) has run on a note: the title is new, the content is kept.
C7_Witness ==
  /\ out # <<>>
  /\ out[1].op = "updateNote"
  /\ out[1].data = [NoFields EXCEPT !.title = <<"t9">>]
  /\ out[1].ret # <<>>
  /\ out[1].ret[1].title = "t9"
  /\ out[1].ret[1].content = "c2"
  /\ out[1].ret[1].backgroundColor = "#fff475"

\* C6: when the summarizer returns the text s to a suspended POST /api/notes,
\* PUT /api/notes/:id or POST /api/notes/:id/summary, the note in the response
\* and the note in the store afterwards both have summary = s.
C6_SummaryPersisted ==
  \A req \in pending : \A reply \in Replies \ {<<>>} :
    req.op \in {"postNote", "putNote", "summary"} =>
      LET r == resumeNote(req, reply)
          s == summarizeNote(reply)
      IN  /\ r.status \in {200, 201}
          /\ r.body # <<>>
          /\ r.body[1].summary = s
          /\ getNoteById(r.notes, req.key) # <<>>
          /\ getNoteById(r.notes, req.key)[1].summary = s

\* C8: for a note and a label of the caller, add applied twice leaves the label
\* identifier exactly once in the note's labels, and remove of a label that is
\* not among them answers 200 and leaves the labels as they were.
C8_LabelIdempotent ==
  \A c \in tokens : \A i \in 1..Len(notes), j \in 1..Len(labels) :
    LET nId == notes[i].key
        lId == labels[j].key
        old == OrLabels(<<notes[i].val.labels>>)
        once == setLabelOn(notes, labels, c, nId, lId, "add")
        twice == setLabelOn(once.notes, labels, c, nId, lId, "add")
        removed == setLabelOn(notes, labels, c, nId, lId, "remove")
    IN
    (SameUser(c, notes[i].val.userId) /\ SameUser(c, labels[j].val.userId)) =>
      /\ twice.status = 200
      /\ Cardinality({k \in 1..Len(twice.body[1].labels) : twice.body[1].labels[k] = lId}) = 1
      /\ ~Includes(old, lId) => (removed.status = 200 /\ removed.body[1].labels = old)

\* C9: when the summarizer fails a suspended POST or PUT /api/notes, the request
\* answers its status of success with the note it wrote before the call and the
\* summaryError mark; the store is left as it is and still holds that note.
C9_SoftFailure ==
  \A req \in pending :
    req.op \in {"postNote", "putNote"} =>
      LET r == resumeNote(req, <<>>) IN
      /\ r.status = IF req.op = "postNote" THEN 201 ELSE 200
      /\ r.summaryError
      /\ r.body = req.snap
      /\ r.body # <<>>
      /\ r.notes = notes
      /\ r.labels = labels
      /\ getNoteById(notes, req.key) = req.snap
      /\ req.snap[1].summary = NULL
      /\ req.snap[1].content = req.data.content[1]

\* A PUT /api/notes/:id with generateSummary waits for the summarizer, and its
\* failure is answered with status 200 and the mark.
C9_Witness ==
  \E req \in pending :
    /\ req.op = "putNote"
    /\ resumeNote(req, <<>>).status = 200
    /\ resumeNote(req, <<>>).summaryError
    /\ resumeNote(req, <<>>).body[1].title = "t2"

\* C10: with requests one at a time, register(name, email, password) with the
\* email of a stored user answers 409, takes no identifier and starts no user
\* creation (so no token); with an unused email it creates exactly one user,
\* under that email, and signs a token with that user's claims.
C10_Register ==
  /\ \A body \in UserBodies :
       (validUser(body) /\ body.password # <<>>) =>
         LET r == registerRoute(body)
             taken == \E i \in 1..Len(users) : users[i].val.email = body.email[1]
         IN  /\ taken => (r.status = 409 /\ r.pend = <<>> /\ r.userId = userId)
             /\ ~taken => /\ r.status = 0
                          /\ r.userId = userId + 1
                          /\ Len(r.pend) = 1
                          /\ r.pend[1].op = "register"
                          /\ r.pend[1].data = body
  /\ \A req \in pending :
       req.op = "register" =>
         LET h == hashResolved(req)
             n == Len(h.users)
         IN  /\ h.status = 201
             /\ n = Len(users) + 1
             /\ SubSeq(h.users, 1, n - 1) = users
             /\ h.users[n].val.email = req.data.email[1]
             /\ \A i \in 1..Len(users) : users[i].val.email # req.data.email[1]
             /\ h.token = <<claimsOf(h.users[n].val)>>
             /\ h.token[1].id = req.key

\* Ann has registered (her user and her token are there) and a second
\* registration under her email is answered 409.
C10_Witness ==
  /\ \E i \in 1..Len(users) : users[i].val.email = "ann@example.com"
  /\ \E c \in tokens : c.email = "ann@example.com"
  /\ \E body \in UserBodies :
       body.email = <<"ann@example.com">> /\ body.password # <<>>
       /\ registerRoute(body).status = 409

\* Why a password login fails: no user under the email, or a wrong password.
\* "" when it does not fail for one of these causes.
LoginCause(body) ==
  LET user == getUserByEmail(users, body.email)
  IN  IF user = <<>> THEN "nonexistent"
      ELSE IF user[1].password = NULL THEN "social-only"
      ELSE IF ~bcryptCompare(body.password, user[1].password) THEN "wrong-password"
      ELSE ""

\* C11: in POST /api/auth/login and in the LocalStrategy, any two well-formed
\* login attempts that fail (unknown email, account without password, wrong
\* password) are answered with the same status and the same message.
C11_NoEnumeration ==
  \A a, b \in {x \in LoginBodies : validLogin(x)} :
    (LoginCause(a) # "" /\ LoginCause(b) # "") =>
      /\ loginRoute(a).status = loginRoute(b).status
      /\ loginRoute(a).message = loginRoute(b).message
      /\ localStrategy(a.email, a.password).user = <<>>
      /\ localStrategy(a.email, a.password).message
           = localStrategy(b.email, b.password).message

\* C12: a token signed at register, at login or by generateToken for a user,
\* presented to authenticateToken before its expiry, is accepted and resolves
\* to claims with that user's id, email and name.
C12_RoundTrip ==
  (out # <<>> /\ out[1].op = "present") =>
    LET p == out[1] IN
    (p.gate = "authenticateToken" /\ p.how # "forged" /\ p.at < p.token.exp) =>
      /\ p.res.status = 0
      /\ p.res.user # <<>>
      /\ p.res.user[1].id = p.user.id
      /\ p.res.user[1].email = p.user.email
      /\ "name" \in DOMAIN p.res.user[1]
      /\ p.res.user[1].name = p.user.name

\* The secret a gate verifies with.
GateSecret(gate) ==
  IF gate = "authenticateToken" THEN routeSecret(jwtEnv) ELSE passportSecret(jwtEnv)

\* C13: a token signed with another secret than the gate's, or presented once
\* its expiry is reached, is refused with "Invalid or expired token"; the route
\* behind the gate does not run and the store stays as it was.
C13_Rejection ==
  (out # <<>> /\ out[1].op = "present") =>
    LET p == out[1] IN
    (p.token.secret # GateSecret(p.gate) \/ p.at >= p.token.exp) =>
      /\ p.res.status \in {401, 403}
      /\ p.res.user = <<>>
      /\ p.res.message = "Invalid or expired token"
      /\ p.status = p.res.status
      /\ notes = p.before
      /\ noteId = Len(p.before) + 1

\* A token of the login route, signed with the server's secret, has been
\* presented to authenticateToken on the day of its expiry and was refused.
C13_Witness ==
  /\ out # <<>>
  /\ out[1].op = "present"
  /\ out[1].how = "login"
  /\ out[1].gate = "authenticateToken"
  /\ out[1].token.secret = routeSecret(jwtEnv)
  /\ out[1].at >= out[1].token.exp
  /\ out[1].res.status = 403

\* C14: after PUT /api/labels/:id by the owner with a color that is missing or
\* empty, the stored and the returned label have the color "#3b82f6", in
\* MemStorage as in MongoStorage.
C14_ColorDefault ==
  \A c \in tokens : \A i \in 1..Len(labels) : \A b \in GoodLabelBodies :
    LET id == labels[i].key
        r == putLabel(c, id, b)
        m == mongoUpdateLabel(labels, id, b)
    IN
    (SameUser(c, labels[i].val.userId) /\ (b.color = <<>> \/ b.color = <<"">>)) =>
      /\ r.status = 200
      /\ r.body[1].color = DefaultLabelColor
      /\ getLabelById(r.labels, id)[1].color = DefaultLabelColor
      /\ m.ret[1].color = DefaultLabelColor
      /\ getLabelById(m.labels, id)[1].color = DefaultLabelColor

\* C15: the note POST /api/notes creates, as createNote returns and stores it,
\* has pinned = false, archived = false, labels = [], backgroundColor =
\* "#ffffff", fontSize = "normal" and summary null for each of these fields the
\* payload leaves out, and createdAt = updatedAt = the time of creation.
C15_Defaults ==
  \A c \in tokens : \A b \in GoodNoteBodies : \A g \in BOOLEAN :
    LET r == postNote(c, b, g)
        note == IF r.pend # <<>> THEN r.pend[1].snap[1] ELSE r.body[1]
    IN  /\ r.status \in {0, 201}
        /\ getNoteById(r.notes, Str(noteId)) = <<note>>
        /\ b.pinned = <<>> => note.pinned = FALSE
        /\ b.archived = <<>> => note.archived = FALSE
        /\ b.labels = <<>> => note.labels = <<>>
        /\ b.backgroundColor = <<>> => note.backgroundColor = "#ffffff"
        /\ b.fontSize = <<>> => note.fontSize = "normal"
        /\ b.summary = <<>> => note.summary = NULL
        /\ note.createdAt = now
        /\ note.updatedAt = note.createdAt

\* A note created from {title, content} alone at time 1 is in the store with
\* every default.
C15_Witness ==
  \E i \in 1..Len(notes) :
    LET note == notes[i].val IN
    /\ note.title = "t1" /\ note.content = "c1"
    /\ note.pinned = FALSE /\ note.archived = FALSE /\ note.labels = <<>>
    /\ note.backgroundColor = "#ffffff" /\ note.fontSize = "normal"
    /\ note.summary = NULL
    /\ note.createdAt = 1 /\ note.updatedAt = 1

\* The toggle of PATCH /api/notes/:id/pin or /archive on the notes map ns.
ToggleOn(ns, id, field) ==
  LET note == getNoteById(ns, id)[1]
      data == IF field = "pinned"
              THEN [Spread(note) EXCEPT !.pinned = <<~note.pinned>>]
              ELSE [Spread(note) EXCEPT !.archived = <<~note.archived>>]
  IN  updateNote(ns, id, data, now)

\* C16: a pin or archive toggle by the owner answers 200 with the note it has
\* stored: the flag is the negation of the stored one, updatedAt is the time of
\* the call, every other field is as before, no other note is touched; a second
\* toggle of the same flag gives back the first value.
C16_Toggle ==
  \A c \in tokens : \A i \in 1..Len(notes) : \A field \in {"pinned", "archived"} :
    LET id == notes[i].key
        old == notes[i].val
        r == toggleRoute(c, id, field)
        new == r.body[1]
    IN
    SameUser(c, old.userId) =>
      /\ r.status = 200
      /\ r.body # <<>>
      /\ getNoteById(r.notes, id) = r.body
      /\ new[field] = ~old[field]
      /\ new = [old EXCEPT ![field] = ~old[field], !.updatedAt = now]
      /\ \A j \in 1..Len(notes) : j # i => r.notes[j] = notes[j]
      /\ Len(r.notes) = Len(notes)
      /\ ToggleOn(r.notes, id, field).ret[1][field] = old[field]

\* A pinned note whose owner can toggle it: it was pinned by a toggle or a
\* payload, and the next toggle unpins it.
C16_Witness ==
  \E c \in tokens : \E i \in 1..Len(notes) :
    /\ SameUser(c, notes[i].val.userId)
    /\ notes[i].val.pinned
    /\ notes[i].val.updatedAt > notes[i].val.createdAt
    /\ toggleRoute(c, notes[i].key, "pinned").status = 200
    /\ ~toggleRoute(c, notes[i].key, "pinned").body[1].pinned

\* C17: every stored note has updatedAt >= createdAt; across every step a note
\* that stays in the store keeps its createdAt and its updatedAt does not go
\* back, and a note that was written has updatedAt = the time of the write.
C17_Timestamps ==
  /\ [](\A i \in 1..Len(notes) : notes[i].val.updatedAt >= notes[i].val.createdAt)
  /\ [][\A i \in 1..Len(notes) : \A j \in 1..Len(notes') :
          notes'[j].key = notes[i].key =>
            /\ notes'[j].val.createdAt = notes[i].val.createdAt
            /\ notes'[j].val.updatedAt >= notes[i].val.updatedAt
            /\ notes'[j].val # notes[i].val => notes'[j].val.updatedAt = now]_vars

\* A note created at time 0 and written again at time 1.
C17_Witness ==
  \E i \in 1..Len(notes) :
    notes[i].val.createdAt = 0 /\ notes[i].val.updatedAt = 1

\* C18: the note or label a caller creates is stored with that caller's
\* identifier as owner, and across every step (update, toggle, label
\* association, summary, with any payload) a note or label that stays in the
\* store keeps its owner; a new one is owned by the holder of a token.
C18_OwnerFixed ==
  /\ [](\A c \in tokens :
         /\ \A b \in GoodNoteBodies : \A g \in BOOLEAN :
              getNoteById(postNote(c, b, g).notes, Str(noteId))[1].userId = c.id
         /\ \A b \in GoodLabelBodies :
              getLabelById(postLabel(c, b).labels, Str(labelId))[1].userId = c.id)
  /\ [][/\ \A j \in 1..Len(notes') :
            IF MapHas(notes, notes'[j].key)
            THEN notes'[j].val.userId = MapGet(notes, notes'[j].key)[1].userId
            ELSE \E c \in tokens : notes'[j].val.userId = c.id
        /\ \A j \in 1..Len(labels') :
            IF MapHas(labels, labels'[j].key)
            THEN labels'[j].val.userId = MapGet(labels, labels'[j].key)[1].userId
            ELSE \E c \in tokens : labels'[j].val.userId = c.id]_vars

\* A note of the second user that was written again after its creation.
C18_Witness ==
  \E i \in 1..Len(notes) :
    /\ notes[i].val.userId = Num(2)
    /\ notes[i].val.updatedAt > notes[i].val.createdAt

\* C19: no stored note holds the same label identifier twice.
C19_NoDuplicateLabels ==
  \A i \in 1..Len(notes) :
    LET ls == OrLabels(<<notes[i].val.labels>>) IN
    \A j, k \in 1..Len(ls) : j # k => ls[j] # ls[k]

\* A title or content that is missing or empty.
Blank(opt) == opt = <<>> \/ opt[1] = ""

\* C20: every stored note has a non-empty title and a non-empty content, and a
\* POST or PUT /api/notes whose title or content is missing or empty answers
\* 400 and leaves the store as it is.
C20_NonEmpty ==
  /\ \A i \in 1..Len(notes) : notes[i].val.title # "" /\ notes[i].val.content # ""
  /\ \A c \in tokens : \A b \in NoteBodies : \A g \in BOOLEAN :
       (Blank(b.title) \/ Blank(b.content)) =>
         /\ postNote(c, b, g).status = 400
         /\ postNote(c, b, g).notes = notes
         /\ \A id \in NoteKeys :
              putNote(c, id, b, g).status = 400 /\ putNote(c, id, b, g).notes = notes

\* C21: GET /api/notes of a caller, with any archived and labelId parameter,
\* lists notes of that caller only, each once, and every note of the caller the
\* parameters ask for; GET /api/labels lists exactly the caller's labels.
C21_ListIsolation ==
  \A c \in tokens :
    LET mineAll == {notes[i].val : i \in {k \in 1..Len(notes) : SameUser(c, notes[k].val.userId)}}
    IN
    /\ \A a \in ArchivedParams : \A l \in {<<>>} \cup {<<k>> : k \in LabelKeys} :
         LET got == listNotesRoute(c, a, l).body
             gotSet == {got[i] : i \in 1..Len(got)}
             wanted == {n \in mineAll :
                          /\ n.archived = (a = "true")
                          /\ l # <<>> => (n.labels # NullLabels /\ Includes(n.labels, l[1]))}
         IN  /\ gotSet \subseteq mineAll
             /\ \A n \in gotSet : SameUser(c, n.userId)
             /\ wanted \subseteq gotSet
             /\ Cardinality(gotSet) = Len(got)
    /\ listLabelsRoute(c).body
         = {labels[i].val : i \in {k \in 1..Len(labels) : SameUser(c, labels[k].val.userId)}}

\* Two users hold a token and a note each, and each one's listing is not empty.
C21_Witness ==
  \E a, b \in tokens :
    /\ a.id # b.id
    /\ \E i, j \in 1..Len(notes) :
         /\ notes[i].val.userId = a.id /\ notes[j].val.userId = b.id
         /\ ~notes[i].val.archived /\ ~notes[j].val.archived
    /\ Len(listNotesRoute(a, "", <<>>).body) = 1
    /\ Len(listNotesRoute(b, "", <<>>).body) = 1

\* C22: DELETE /api/labels/:id by the owner answers 200, removes that label
\* and no other, and leaves every note as it is: a note that held the label's
\* identifier still holds it.
C22_NoCascade ==
  \A c \in tokens : \A i \in 1..Len(labels) :
    LET id == labels[i].key
        r == deleteLabelRoute(c, id)
    IN
    SameUser(c, labels[i].val.userId) =>
      /\ r.status = 200
      /\ r.labels = SelectSeq(labels, LAMBDA e : e.key # id)
      /\ getLabelById(r.labels, id) = <<>>
      /\ r.notes = notes
      /\ \A j \in 1..Len(notes) :
           Includes(OrLabels(<<notes[j].val.labels>>), id)
             => Includes(r.notes[j].val.labels, id)

\* A note holds the identifier of a label that was created and then deleted.
C22_Witness ==
  \E j \in 1..Len(notes) : \E k \in 1..MaxLabels :
    /\ Includes(OrLabels(<<notes[j].val.labels>>), Str(k))
    /\ k < labelId
    /\ ~MapHas(labels, Str(k))

\* C23: two register requests with one unused email that overlap both pass the
\* getUserByEmail check and both create a user: while a register is suspended at
\* bcrypt.hash, a second request with its email is admitted as long as nobody is
\* stored under that email, and every suspended register stores its user when
\* the hash resolves, whether or not the email has been taken in the meantime.
C23_RegisterRace ==
  /\ \A req \in pending :
       req.op = "register" =>
         LET r == hashResolved(req) IN
         /\ r.status = 201
         /\ MapGet(r.users, String(req.key)) = <<r.user>>
         /\ r.user.email = req.data.email[1]
         /\ Len(r.users) = Len(users) + 1
         /\ \A i \in 1..Len(users) : r.users[i] = users[i]
  /\ \A req \in pending : \A body \in UserBodies :
       ( /\ req.op = "register"
         /\ body.email = req.data.email
         /\ body.password # <<>>
         /\ getUserByEmail(users, body.email[1]) = <<>> ) =>
         LET r == registerRoute(body) IN
         /\ r.status = 0
         /\ r.userId = userId + 1
         /\ Len(r.pend) = 1
         /\ r.pend[1].data.email = req.data.email

\* Two users created by register are stored under one email.
C23_Witness ==
  \E i, j \in 1..Len(users) :
    /\ i # j
    /\ users[i].val.email = users[j].val.email
    /\ users[i].val.id.n >= 2
    /\ users[j].val.id.n >= 2

\* C24: a sign-in with a verified profile succeeds and returns the user already
\* holding the provider identifier, else the user with the profile's email, now
\* linked to the identifier, else a new user without a password; afterwards a
\* lookup by the provider identifier finds the user the sign-in returned.
C24_FindOrCreate ==
  \A profile \in Profiles :
    LET r == googleVerify(profile)
        held == getUserByGoogleId(users, profile.id)
        mail == IF profile.email # <<>> THEN getUserByEmail(users, profile.email[1]) ELSE <<>>
    IN
    /\ ~r.error
    /\ r.user # <<>>
    /\ held # <<>> => r.user = held
    /\ (held = <<>> /\ mail # <<>>) => r.user[1].id = mail[1].id
    /\ (held = <<>> /\ mail = <<>>) =>
         /\ getUser(users, String(r.user[1].id)) = <<>>
         /\ r.user[1].password = NULL
    /\ getUserByGoogleId(r.users, profile.id) = r.user

\* A handler is suspended at the summarizer call.
SummaryOutstanding ==
  \E req \in pending : req.op \in {"postNote", "putNote", "summary"}

\* C25: every create or update with generateSummary and every summary request
\* is eventually answered, whether or not the summarizer ever answers: a handler
\* suspended at the summarizer call does not stay suspended for ever.
C25_Bounded == SummaryOutstanding ~> ~SummaryOutstanding

\* The blocks the classification names for a line, read as written: the marker
\* stands at the very start of the line.
SaysHeading(line, k) ==
  /\ k < Len(line)
  /\ \A i \in 1..k : line[i] = "#"
  /\ line[k + 1] = " "

SaysBullet(line) == Len(line) >= 2 /\ line[1] \in {"-", "*"} /\ line[2] = " "

SaysNumbered(line) ==
  \E d \in 1..(Len(line) - 2) :
    /\ \A i \in 1..d : line[i] = "1"
    /\ line[d + 1] = "."
    /\ line[d + 2] = " "

SaysBlank(line) == \A i \in 1..Len(line) : line[i] = " "

SaysTag(line) ==
  IF SaysHeading(line, 1) THEN "h1"
  ELSE IF SaysHeading(line, 2) THEN "h2"
  ELSE IF SaysHeading(line, 3) THEN "h3"
  ELSE IF SaysBullet(line) \/ SaysNumbered(line) THEN "li"
  ELSE IF SaysBlank(line) THEN "br"
  ELSE "p"

\* C26: formatContent turns every line of a non-empty content into exactly one
\* block: a heading of level 1 to 3 without its marker for 1 to 3 leading '#'
\* and whitespace, a bullet item for a leading '-' or '*' and whitespace, a
\* numbered item for leading digits, '.' and whitespace, a line break for a blank
\* line, a paragraph for any other line; there are as many blocks as lines.
C26_Blocks ==
  \A k \in 1..Len(out) :
    (out[k].done /\ out[k].content # <<>>) =>
      LET lines == splitLines(out[k].content)
          blocks == out[k].blocks
      IN
      /\ Len(blocks) = Len(lines)
      /\ \A i \in 1..Len(lines) :
           /\ blocks[i].tag = SaysTag(lines[i])
           /\ blocks[i].decimal = (~SaysBullet(lines[i]) /\ SaysNumbered(lines[i]))
           /\ \A h \in 1..3 :
                SaysHeading(lines[i], h) =>
                  /\ blocks[i].text # <<>> => blocks[i].text[1] # " "
                  /\ \E j \in (h + 1)..Len(lines[i]) :
                       blocks[i].text = SubSeq(lines[i], j + 1, Len(lines[i]))

\* The statuses of a validation, authentication, ownership, not-found, conflict
\* and unavailable-service answer.
ErrorKinds == {400, 401, 403, 404, 409, 503}

\* The answer r is an error that wrote nothing and left no handler suspended.
KeepsStore(r) ==
  r.status \in ErrorKinds => (r.notes = notes /\ r.labels = labels /\ r.pend = <<>>)

NoteErrorsKeep ==
  \A c \in tokens : \A id \in NoteKeys :
    /\ KeepsStore(getNoteRoute(c, id))
    /\ KeepsStore(deleteNoteRoute(c, id))
    /\ KeepsStore(toggleRoute(c, id, "pinned"))
    /\ KeepsStore(toggleRoute(c, id, "archived"))
    /\ KeepsStore(summaryRoute(c, id))
    /\ ~apiKey => summaryRoute(c, id).status = 503
    /\ \A body \in NoteBodies : \A g \in BOOLEAN :
         /\ KeepsStore(postNote(c, body, g))
         /\ KeepsStore(putNote(c, id, body, g))
    /\ \A lId \in LabelKeys : \A action \in {"add", "remove", "toggle"} :
         KeepsStore(setLabelRoute(c, id, lId, action))

LabelErrorsKeep ==
  \A c \in tokens : \A id \in LabelKeys :
    /\ KeepsStore(getLabelRoute(c, id))
    /\ KeepsStore(deleteLabelRoute(c, id))
    /\ \A body \in LabelBodies :
         /\ KeepsStore(postLabel(c, body))
         /\ KeepsStore(putLabel(c, id, body))

AuthErrorsKeep ==
  /\ \A body \in UserBodies :
       registerRoute(body).status \in ErrorKinds =>
         (registerRoute(body).userId = userId /\ registerRoute(body).pend = <<>>)
  /\ \A body \in LoginBodies :
       loginRoute(body).status \in ErrorKinds => loginRoute(body).token = <<>>

\* The summarizer call of a suspended summary request fails.
SummaryFailureKeeps ==
  \A req \in pending :
    req.op = "summary" =>
      /\ resumeNote(req, <<>>).status >= 400
      /\ resumeNote(req, <<>>).notes = notes
      /\ resumeNote(req, <<>>).labels = labels
      /\ resumeNote(req, <<>>).pend = <<>>

\* C27: a request answered with a validation, authentication, ownership,
\* not-found, conflict or unavailable-service error, and a summary request whose
\* summarizer call fails, leaves the three maps and the three counters as they
\* were: the answer carries the store unchanged, register keeps the user
\* counter, and the note and label counters move only in a step that stores a
\* new note or label.
C27_ErrorsKeepStore ==
  /\ [](NoteErrorsKeep /\ LabelErrorsKeep /\ AuthErrorsKeep /\ SummaryFailureKeeps)
  /\ [][/\ noteId' # noteId => (noteId' = noteId + 1 /\ Len(notes') = Len(notes) + 1)
        /\ labelId' # labelId => (labelId' = labelId + 1 /\ Len(labels') = Len(labels) + 1)
        /\ users' # users => \E req \in pending : req \notin pending']_vars

\* A summary request is suspended at the summarizer while another user's token
\* is refused on a stored note.
C27_Witness ==
  /\ \E req \in pending : req.op = "summary"
  /\ \E c \in tokens : \E id \in NoteKeys :
       putNote(c, id, BodyPlain, FALSE).status = 403

\* No two entries of the map m share a key, each entity is stored under the
\* string form of its identifier, and every identifier is below the counter.
WellKeyed(m, counter) ==
  /\ \A i, j \in 1..Len(m) : m[i].key = m[j].key => i = j
  /\ \A i \in 1..Len(m) : m[i].key = String(m[i].val.id) /\ m[i].val.id.n < counter

\* The identifiers held by handlers suspended inside createUser are taken from
\* the counter too, each by one handler, and none is stored yet.
HeldUserIds ==
  \A req \in pending :
    req.op \in {"addTestUser", "register"} =>
      /\ req.key.n < userId
      /\ ~MapHas(users, String(req.key))
      /\ \A other \in pending :
           (other.op \in {"addTestUser", "register"} /\ other.key = req.key) => other = req

\* C28: under any interleaving of requests the three counters only grow, a
\* new note or label is stored under the string form of the counter's value,
\* which no entity created before has had (an identifier freed by a deletion
\* included), a new user under the identifier its createUser took, and within
\* one map no two entities share an identifier or a key.
C28_UniqueIds ==
  /\ [](/\ WellKeyed(users, userId)
        /\ WellKeyed(notes, noteId)
        /\ WellKeyed(labels, labelId)
        /\ HeldUserIds)
  /\ [][/\ userId' >= userId /\ noteId' >= noteId /\ labelId' >= labelId
        /\ \A i \in 1..Len(notes') :
             ~MapHas(notes, notes'[i].key) =>
               (notes'[i].key = Str(noteId) /\ noteId' = noteId + 1)
        /\ \A i \in 1..Len(labels') :
             ~MapHas(labels, labels'[i].key) =>
               (labels'[i].key = Str(labelId) /\ labelId' = labelId + 1)
        /\ \A i \in 1..Len(users') :
             ~MapHas(users, users'[i].key) =>
               \E req \in pending : users'[i].key = String(req.key) /\ req \notin pending'
       ]_vars

\* Note 1 was deleted and the note created after that got identifier 2.
C28_Witness ==
  /\ noteId = 3
  /\ ~MapHas(notes, Str(1))
  /\ MapHas(notes, Str(2))

\* C29: in every reachable state, no note holds in its labels the identifier
\* of a stored label that belongs to another user than the note's owner.
C29_NoCrossUserLabels ==
  \A i \in 1..Len(notes) : \A j \in 1..Len(labels) :
    Includes(OrLabels(<<notes[i].val.labels>>), labels[j].key) =>
      String(notes[i].val.userId) = String(labels[j].val.userId)

\* C30: when the summarizer call of a suspended handler returns a text, the
\* write that follows changes nothing but summary and updatedAt of the note as
\* it is stored at that moment, whatever other requests did to the note while
\* the call was outstanding, and a note deleted meanwhile is answered with 404.
\* (Stated for request bodies without null fields.)
C30_NoLostUpdate ==
  \A req \in pending : \A reply \in Replies :
    ( /\ req.op \in {"postNote", "putNote", "summary"}
      /\ req.data \in {NoFields, BodyPlain, BodyRich, BodyOdd}
      /\ reply # <<>> ) =>
      LET r == resumeNote(req, reply)
          stored == getNoteById(notes, req.key)
          written == getNoteById(r.notes, req.key)
      IN
      /\ stored = <<>> => (r.status = 404 /\ r.notes = notes)
      /\ stored # <<>> =>
           /\ written # <<>>
           /\ [written[1] EXCEPT !.summary = stored[1].summary,
                                 !.updatedAt = stored[1].updatedAt] = stored[1]
           /\ \A i \in 1..Len(notes) : notes[i].key # req.key => r.notes[i] = notes[i]

====
